---- MODULE Spec2Model ----
(***************************************************************************)
(* Model of the markup-tree builder in src/src/lib.rs: the text codec      *)
(* (escape_ascii / un_escape_ascii), the Element data (content, kws,       *)
(* onetag, pre), the tree operations (add, remove_child, ...) and render.  *)
(*                                                                         *)
(* Text is a sequence of one-character strings.  An Element handle is a    *)
(* number in Nodes; every handle is kept alive by its caller, so a Weak    *)
(* parent reference always upgrades.                                       *)
(***************************************************************************)
EXTENDS Integers, Sequences, FiniteSets, TLC

VARIABLES parent, children, tag, content, kws, onetag, pre, last, panicked

vars == <<parent, children, tag, content, kws, onetag, pre, last, panicked>>

\* ------------------------------------------------------------------ bounds
NumNodes == 3
MaxEdges == 2
MaxLen == 3
MaxValLen == 2

Nodes == 1..NumNodes
None == 0

\* ------------------------------------------------------------- text codec
RECURSIVE escape_from(_, _, _)
escape_from(s, i, result) ==
  IF i > Len(s) THEN result
  ELSE LET c == s[i] IN
       escape_from(s, i + 1,
         CASE c = "\"" -> result \o <<"&", "q", "u", "o", "t", ";">>
           [] c = "'"  -> result \o <<"&", "a", "p", "o", "s", ";">>
           [] c = "&"  -> result \o <<"&", "a", "m", "p", ";">>
           [] c = "<"  -> result \o <<"&", "l", "t", ";">>
           [] c = ">"  -> result \o <<"&", "g", "t", ";">>
           [] OTHER    -> Append(result, c))

\* escape_ascii without its arm for '&'
RECURSIVE escape_from_no_amp(_, _, _)
escape_from_no_amp(s, i, result) ==
  IF i > Len(s) THEN result
  ELSE LET c == s[i] IN
       escape_from_no_amp(s, i + 1,
         CASE c = "\"" -> result \o <<"&", "q", "u", "o", "t", ";">>
           [] c = "'"  -> result \o <<"&", "a", "p", "o", "s", ";">>
           [] c = "<"  -> result \o <<"&", "l", "t", ";">>
           [] c = ">"  -> result \o <<"&", "g", "t", ";">>
           [] OTHER    -> Append(result, c))

escape_ascii_no_amp(s) == escape_from_no_amp(s, 1, <<>>)

escape_ascii(s) == escape_from(s, 1, <<>>)

\* The inner `while let` of un_escape_ascii: consume up to and including
\* the next ';' (or to the end of the input), collecting the name.
RECURSIVE scan_name(_, _, _)
scan_name(s, i, name) ==
  IF i > Len(s) THEN [name |-> name, next |-> i]
  ELSE IF s[i] = ";" THEN [name |-> name, next |-> i + 1]
  ELSE scan_name(s, i + 1, Append(name, s[i]))

\* match_name with the arms of "lt" and "gt" exchanged
match_name_swapped(name) ==
  CASE name = <<"q", "u", "o", "t">> -> "\""
    [] name = <<"a", "p", "o", "s">> -> "'"
    [] name = <<"a", "m", "p">>      -> "&"
    [] name = <<"l", "t">>           -> ">"
    [] name = <<"g", "t">>           -> "<"
    [] OTHER                         -> "&"

match_name(name) ==
  CASE name = <<"q", "u", "o", "t">> -> "\""
    [] name = <<"a", "p", "o", "s">> -> "'"
    [] name = <<"a", "m", "p">>      -> "&"
    [] name = <<"l", "t">>           -> "<"
    [] name = <<"g", "t">>           -> ">"
    [] OTHER                         -> "&"

RECURSIVE un_escape_from(_, _, _)
un_escape_from(s, i, result) ==
  IF i > Len(s) THEN result
  ELSE IF s[i] = "&"
       THEN LET r == scan_name(s, i + 1, <<>>) IN
            un_escape_from(s, r.next, Append(result, match_name(r.name)))
       ELSE un_escape_from(s, i + 1, Append(result, s[i]))

un_escape_ascii(s) == un_escape_from(s, 1, <<>>)

\* ---------------------------------------------------------------- helpers
EmptyMap == [k \in {} |-> <<>>]

\* Vec::remove(index), index counted from 0
vec_remove(v, index) ==
  [j \in 1..(Len(v) - 1) |-> IF j <= index THEN v[j] ELSE v[j + 1]]

\* Iterator::position(|x| x == child): first 0-based index, or None (-1)
position(v, child) ==
  IF \E j \in 1..Len(v) : v[j] = child
  THEN (CHOOSE j \in 1..Len(v) :
          v[j] = child /\ \A h \in 1..(j - 1) : v[h] # child) - 1
  ELSE -1

Range(v) == {v[j] : j \in 1..Len(v)}

RECURSIVE SumLen(_, _)
SumLen(ch, S) ==
  IF S = {} THEN 0
  ELSE LET n == CHOOSE x \in S : TRUE IN Len(ch[n]) + SumLen(ch, S \ {n})

\* RefCell::borrow_mut on node n while the nodes in held are mutably
\* borrowed: succeeds unless n is already borrowed (BorrowMutError panic).
\* a borrow that is never refused
borrow_mut_unchecked(held, n) == TRUE

borrow_mut_ok(held, n) == n \notin held

\* The call the latest step made: its name, receiver, argument and return
\* value (None for a call that returns nothing or Self, or that panicked).
\* old is the stored content the call read (None when it reads none).
Call(op, self, arg, ret) ==
  [op |-> op, self |-> self, arg |-> arg, ret |-> ret, old |-> None]

CallOn(op, self, arg, old) ==
  [op |-> op, self |-> self, arg |-> arg, ret |-> None, old |-> old]

DataVars == <<tag, content, kws, onetag, pre>>
TreeVars == <<parent, children>>

\* ------------------------------------------------------- tree operations
\* Element::add(&self, elem)
Element_add(self, elem) ==
  /\ ~panicked
  /\ borrow_mut_ok({self}, elem) => SumLen(children, Nodes) < MaxEdges
  /\ IF borrow_mut_ok({self}, elem)
     THEN /\ parent' = [parent EXCEPT ![elem] = self]
          /\ children' = [children EXCEPT ![self] = Append(@, elem)]
          /\ panicked' = FALSE
          /\ last' = Call("add", self, elem, None)
     ELSE /\ UNCHANGED TreeVars
          /\ panicked' = TRUE
          /\ last' = Call("add", self, elem, None)
  /\ UNCHANGED DataVars

\* Element::add_with(self, elem): self.add(elem); self
Element_add_with(self, elem) ==
  /\ ~panicked
  /\ borrow_mut_ok({self}, elem) => SumLen(children, Nodes) < MaxEdges
  /\ IF borrow_mut_ok({self}, elem)
     THEN /\ parent' = [parent EXCEPT ![elem] = self]
          /\ children' = [children EXCEPT ![self] = Append(@, elem)]
          /\ panicked' = FALSE
          /\ last' = Call("add_with", self, elem, None)
     ELSE /\ UNCHANGED TreeVars
          /\ panicked' = TRUE
          /\ last' = Call("add_with", self, elem, None)
  /\ UNCHANGED DataVars

\* Element::remove_child(&self, index) -> Option<Element>
Element_remove_child(self, index) ==
  /\ ~panicked
  /\ IF index < Len(children[self])
     THEN LET child == children[self][index + 1] IN
          /\ children' = [children EXCEPT ![self] = vec_remove(@, index)]
          /\ IF borrow_mut_ok({self}, child)
             THEN /\ parent' = [parent EXCEPT ![child] = None]
                  /\ panicked' = FALSE
                  /\ last' = Call("remove_child", self, index, child)
             ELSE /\ UNCHANGED parent
                  /\ panicked' = TRUE
                  /\ last' = Call("remove_child", self, index, None)
     ELSE /\ UNCHANGED TreeVars
          /\ panicked' = FALSE
          /\ last' = Call("remove_child", self, index, None)
  /\ UNCHANGED DataVars

\* remove_child_by_ref that leaves the removed child's parent set
Element_remove_child_by_ref_keeps_parent(self, child) ==
  /\ ~panicked
  /\ LET index == position(children[self], child) IN
     IF index >= 0
     THEN /\ children' = [children EXCEPT ![self] = vec_remove(@, index)]
          /\ UNCHANGED parent
          /\ panicked' = FALSE
          /\ last' = Call("remove_child_by_ref", self, child, TRUE)
     ELSE /\ UNCHANGED TreeVars
          /\ panicked' = FALSE
          /\ last' = Call("remove_child_by_ref", self, child, FALSE)
  /\ UNCHANGED DataVars

\* Element::remove_child_by_ref(&self, child) -> bool
Element_remove_child_by_ref(self, child) ==
  /\ ~panicked
  /\ LET index == position(children[self], child) IN
     IF index >= 0
     THEN /\ children' = [children EXCEPT ![self] = vec_remove(@, index)]
          /\ IF borrow_mut_ok({self}, child)
             THEN /\ parent' = [parent EXCEPT ![child] = None]
                  /\ panicked' = FALSE
                  /\ last' = Call("remove_child_by_ref", self, child, TRUE)
             ELSE /\ UNCHANGED parent
                  /\ panicked' = TRUE
                  /\ last' = Call("remove_child_by_ref", self, child, FALSE)
     ELSE /\ UNCHANGED TreeVars
          /\ panicked' = FALSE
          /\ last' = Call("remove_child_by_ref", self, child, FALSE)
  /\ UNCHANGED DataVars

\* Element::remove_all_children(&self): drain(..) clears the whole list,
\* also when a borrow_mut inside the loop panics; the children drained
\* before the panic have lost their parent.
Element_remove_all_children(self) ==
  /\ ~panicked
  /\ LET v == children[self]
         bad == position(v, self)
         cleared == IF bad >= 0 THEN Range(SubSeq(v, 1, bad)) ELSE Range(v)
     IN /\ children' = [children EXCEPT ![self] = <<>>]
        /\ parent' = [n \in Nodes |-> IF n \in cleared THEN None ELSE parent[n]]
        /\ panicked' = (bad >= 0)
        /\ last' = Call("remove_all_children", self, None, None)
  /\ UNCHANGED DataVars

\* ------------------------------------------------- tree specification
Init ==
  /\ parent = [n \in Nodes |-> None]
  /\ children = [n \in Nodes |-> <<>>]
  /\ tag = [n \in Nodes |-> <<"p">>]
  /\ content = [n \in Nodes |-> escape_ascii(<<>>)]
  /\ kws = [n \in Nodes |-> EmptyMap]
  /\ onetag = [n \in Nodes |-> FALSE]
  /\ pre = [n \in Nodes |-> FALSE]
  /\ last = Call("new", None, None, None)
  /\ panicked = FALSE

Next ==
  \/ \E self \in Nodes, elem \in Nodes : Element_add(self, elem)
  \/ \E self \in Nodes, elem \in Nodes : Element_add_with(self, elem)
  \/ \E self \in Nodes, index \in 0..MaxEdges : Element_remove_child(self, index)
  \/ \E self \in Nodes, child \in Nodes : Element_remove_child_by_ref(self, child)
  \/ \E self \in Nodes : Element_remove_all_children(self)

Spec == Init /\ [][Next]_vars

\* Element::parent(&self): the Weak reference upgraded; every handle is
\* alive, so it resolves whenever it is set
Element_parent(self) == parent[self]

\* Element::children(&self): a copy of the list
Element_children(self) == children[self]

\* ------------------------------------------------------ tree properties
Children(n) == Range(Element_children(n))

RECURSIVE Descendants(_, _)
Descendants(S, k) ==
  IF k = 0 THEN S
  ELSE Descendants(S \cup UNION {Children(n) : n \in S}, k - 1)

\* the nodes reachable from n by one or more steps along children lists
Reach(n) == Descendants(Children(n), NumNodes)

\* C1: whenever node P's children list contains node C, C.parent()
\* resolves to P, in every reachable state.
C1_ParentChildConsistent ==
  \A p \in Nodes : \A c \in Children(p) : Element_parent(c) = p

\* C2: no node is reachable from itself by following children lists.
C2_Acyclic == \A n \in Nodes : n \notin Reach(n)

IsAdd(c) == c.op \in {"add", "add_with"}

\* C3: n.add(n) panics (a borrow violation) instead of completing, and
\* leaves the children lists and parent references as they were.
C3_SelfAddPanics ==
  [][(IsAdd(last') /\ last'.self = last'.arg)
       => (panicked' /\ children' = children /\ parent' = parent)]_vars

C3_Witness ==
  /\ panicked
  /\ IsAdd(last)
  /\ last.self = last.arg
  /\ children[last.self] # <<>>
  /\ parent[last.self] # None

\* C4: the detach operations.  A successful remove_child / remove_child_by_ref
\* / remove_all_children leaves every removed node without a parent and
\* shortens the list by the number removed, returning Some(child) / true;
\* remove_child out of range returns None and remove_child_by_ref of a
\* non-child returns false, and both change nothing.
C4_RemoveChild ==
  last'.op = "remove_child" =>
    LET v == children[last'.self]  i == last'.arg IN
    IF i < Len(v)
    THEN /\ last'.ret = v[i + 1]
         /\ parent'[v[i + 1]] = None
         /\ Len(children'[last'.self]) = Len(v) - 1
         /\ ~panicked'
    ELSE /\ last'.ret = None
         /\ children' = children
         /\ parent' = parent
         /\ ~panicked'

C4_RemoveByRef ==
  last'.op = "remove_child_by_ref" =>
    LET v == children[last'.self]  c == last'.arg IN
    IF c \in Range(v)
    THEN /\ last'.ret = TRUE
         /\ parent'[c] = None
         /\ Len(children'[last'.self]) = Len(v) - 1
         /\ ~panicked'
    ELSE /\ last'.ret = FALSE
         /\ children' = children
         /\ parent' = parent
         /\ ~panicked'

C4_RemoveAll ==
  last'.op = "remove_all_children" =>
    LET v == children[last'.self] IN
    /\ \A c \in Range(v) : parent'[c] = None
    /\ Len(children'[last'.self]) = Len(v) - Len(v)
    /\ ~panicked'

\* C4: every detach call, found or not found, behaves as stated above.
C4_Detach == [][C4_RemoveChild /\ C4_RemoveByRef /\ C4_RemoveAll]_vars

C4_Witness ==
  /\ last.op = "remove_child_by_ref"
  /\ last.ret = TRUE
  /\ parent[last.arg] = None
  /\ Len(children[last.self]) >= 1

\* ------------------------------------------------ content and attributes
\* HashMap::insert
insert(m, k, v) ==
  [x \in (DOMAIN m) \cup {k} |-> IF x = k THEN v ELSE m[x]]

escape_values(m) == [k \in DOMAIN m |-> escape_ascii(m[k])]

un_escape_values(m) == [k \in DOMAIN m |-> un_escape_ascii(m[k])]

\* the loop of Element::attrs: kws.insert(k, escape_ascii(v)) per pair
RECURSIVE attrs_map(_, _, _)
attrs_map(list, i, m) ==
  IF i > Len(list) THEN m
  ELSE attrs_map(list, i + 1, insert(m, list[i][1], escape_ascii(list[i][2])))

\* the loop of Element::set_attrs: self.set_attr(k, v) per pair
RECURSIVE set_attrs_map(_, _, _)
set_attrs_map(list, i, m) ==
  IF i > Len(list) THEN m
  ELSE set_attrs_map(list, i + 1, insert(m, list[i][1], escape_ascii(list[i][2])))

\* Element::kws(self, kws)
Element_kws(self, m) ==
  /\ ~panicked
  /\ kws' = [kws EXCEPT ![self] = escape_values(m)]
  /\ last' = Call("kws", self, m, None)
  /\ UNCHANGED <<tag, content, onetag, pre, parent, children, panicked>>

\* Element::attrs(self, attrs): builds an escaped map, then self.kws(map)
Element_attrs(self, list) ==
  /\ ~panicked
  /\ kws' = [kws EXCEPT ![self] = escape_values(attrs_map(list, 1, EmptyMap))]
  /\ last' = Call("attrs", self, list, None)
  /\ UNCHANGED <<tag, content, onetag, pre, parent, children, panicked>>

\* Element::onetag(self, onetag)
Element_onetag(self, b) ==
  /\ ~panicked
  /\ onetag' = [onetag EXCEPT ![self] = b]
  /\ last' = Call("onetag", self, b, None)
  /\ UNCHANGED <<tag, content, kws, pre, parent, children, panicked>>

\* Element::pre(self, pre)
Element_pre(self, b) ==
  /\ ~panicked
  /\ pre' = [pre EXCEPT ![self] = b]
  /\ IF b
     THEN /\ content' = [content EXCEPT ![self] = un_escape_ascii(@)]
          /\ kws' = [kws EXCEPT ![self] = un_escape_values(@)]
     ELSE UNCHANGED <<content, kws>>
  /\ last' = CallOn("pre", self, b, content[self])
  /\ UNCHANGED <<tag, onetag, parent, children, panicked>>

\* Element::set_attr(&self, name, value)
Element_set_attr(self, name, value) ==
  /\ ~panicked
  /\ kws' = [kws EXCEPT ![self] = insert(@, name, escape_ascii(value))]
  /\ last' = Call("set_attr", self, <<name, value>>, None)
  /\ UNCHANGED <<tag, content, onetag, pre, parent, children, panicked>>

\* Element::set_attrs(&self, attrs)
Element_set_attrs(self, list) ==
  /\ ~panicked
  /\ kws' = [kws EXCEPT ![self] = set_attrs_map(list, 1, @)]
  /\ last' = Call("set_attrs", self, list, None)
  /\ UNCHANGED <<tag, content, onetag, pre, parent, children, panicked>>

\* Element::configcnt(&self, content)
Element_configcnt(self, x) ==
  /\ ~panicked
  /\ content' = [content EXCEPT ![self] =
                   IF pre[self] THEN x ELSE escape_ascii(x)]
  /\ last' = Call("configcnt", self, x, None)
  /\ UNCHANGED <<tag, kws, onetag, pre, parent, children, panicked>>

\* Element::configkws(&self, kws)
Element_configkws(self, m) ==
  /\ ~panicked
  /\ kws' = [kws EXCEPT ![self] = IF ~pre[self] THEN escape_values(m) ELSE m]
  /\ last' = Call("configkws", self, m, None)
  /\ UNCHANGED <<tag, content, onetag, pre, parent, children, panicked>>

\* --------------------------------------------------- input domains
RECURSIVE SeqsUpTo(_, _)
SeqsUpTo(S, n) ==
  IF n = 0 THEN {<<>>}
  ELSE LET shorter == SeqsUpTo(S, n - 1) IN
       shorter \cup {Append(q, c) : q \in shorter, c \in S}

TextAlphabet == {"&", ";", "l", "t", "<"}
Texts == SeqsUpTo(TextAlphabet, MaxLen)

ValAlphabet == {"&", "\""}
Vals == SeqsUpTo(ValAlphabet, MaxValLen)
Keys == {<<"i", "d">>, <<"c", "l", "s">>}
Maps == UNION {[S -> Vals] : S \in SUBSET Keys}
PairLists == SeqsUpTo(Keys \X Vals, Cardinality(Keys))

\* the element the content and attribute specifications work on: the
\* first handle
Elem == CHOOSE n \in Nodes : \A m \in Nodes : n <= m

\* ---------------------------------------------- content specification
\* Element::new(tag, content) for Elem, with any text as content
InitText ==
  \E x \in Texts :
    /\ parent = [n \in Nodes |-> None]
    /\ children = [n \in Nodes |-> <<>>]
    /\ tag = [n \in Nodes |-> <<"p">>]
    /\ content = [n \in Nodes |-> IF n = Elem THEN escape_ascii(x)
                                              ELSE escape_ascii(<<>>)]
    /\ kws = [n \in Nodes |-> EmptyMap]
    /\ onetag = [n \in Nodes |-> FALSE]
    /\ pre = [n \in Nodes |-> FALSE]
    /\ last = Call("new", Elem, x, None)
    /\ panicked = FALSE

NextText ==
  \/ \E x \in Texts : Element_configcnt(Elem, x)
  \/ \E b \in BOOLEAN : Element_pre(Elem, b)

SpecText == InitText /\ [][NextText]_vars

\* -------------------------------------------- attribute specification
NextAttrs ==
  \/ \E m \in Maps : Element_kws(Elem, m)
  \/ \E list \in PairLists : Element_attrs(Elem, list)
  \/ \E m \in Maps : Element_configkws(Elem, m)
  \/ \E k \in Keys, v \in Vals : Element_set_attr(Elem, k, v)
  \/ \E list \in PairLists : Element_set_attrs(Elem, list)
  \/ \E b \in BOOLEAN : Element_pre(Elem, b)

SpecAttrs == Init /\ [][NextAttrs]_vars

\* ------------------------------------------------ content properties
\* C5: un_escape_ascii(escape_ascii(x)) = x, so Element::new(tag, x)
\* followed by pre(true) stores x as content.  Stated for every text x:
\* the texts the claim restricts itself to, and its example of a bare '&'
\* between two letters, are among them.
C5_RoundTrip ==
  [][(last.op = "new" /\ last'.op = "pre" /\ last'.arg = TRUE
        /\ last'.self = last.self)
       => (/\ last'.old = escape_ascii(last.arg)
           /\ content'[last.self] = last.arg)]_vars

C5_Witness ==
  /\ last.op = "pre"
  /\ last.arg = TRUE
  /\ last.old = <<"l", "&", "a", "m", "p", ";", "t">>
  /\ content[Elem] = <<"l", "&", "t">>

KnownNames ==
  {<<"q", "u", "o", "t">>, <<"a", "p", "o", "s">>, <<"a", "m", "p">>,
   <<"l", "t">>, <<"g", "t">>}

Literal(name) ==
  IF name = <<"q", "u", "o", "t">> THEN "\""
  ELSE IF name = <<"a", "p", "o", "s">> THEN "'"
  ELSE IF name = <<"a", "m", "p">> THEN "&"
  ELSE IF name = <<"l", "t">> THEN "<"
  ELSE ">"

Semis(s) == {k \in 1..Len(s) : s[k] = ";"}

FirstSemi(s) == CHOOSE k \in Semis(s) : \A h \in Semis(s) : k <= h

\* un_escape_ascii as C6 words it: a candidate that no ';' ends yields
\* one '&', whatever its characters spell.
RECURSIVE C6_Stated(_)
C6_Stated(s) ==
  IF s = <<>> THEN <<>>
  ELSE IF Head(s) # "&" THEN <<Head(s)>> \o C6_Stated(Tail(s))
  ELSE LET rest == Tail(s) IN
       IF Semis(rest) = {} THEN <<"&">>
       ELSE LET k == FirstSemi(rest)
                name == SubSeq(rest, 1, k - 1)
            IN (IF name \in KnownNames THEN <<Literal(name)>> ELSE <<"&">>)
               \o C6_Stated(SubSeq(rest, k + 1, Len(rest)))

\* The same, except that a candidate ended by the end of the input is
\* looked up like one ended by ';'.
RECURSIVE C6_Reference(_)
C6_Reference(s) ==
  IF s = <<>> THEN <<>>
  ELSE IF Head(s) # "&" THEN <<Head(s)>> \o C6_Reference(Tail(s))
  ELSE LET rest == Tail(s) IN
       IF Semis(rest) = {}
       THEN (IF rest \in KnownNames THEN <<Literal(rest)>> ELSE <<"&">>)
       ELSE LET k == FirstSemi(rest)
                name == SubSeq(rest, 1, k - 1)
            IN (IF name \in KnownNames THEN <<Literal(name)>> ELSE <<"&">>)
               \o C6_Reference(SubSeq(rest, k + 1, Len(rest)))

IsUnescape(c) == c.op = "pre" /\ c.arg = TRUE

\* C6 as stated: on each '&' the characters up to and including the next
\* ';' are consumed; a known name yields its character; an unknown name,
\* or a candidate that no ';' ends, yields exactly one '&'.
C6_UnescapeAsStated ==
  IsUnescape(last) => content[last.self] = C6_Stated(last.old)

\* C6 amended: as stated, except that a candidate ended by the end of the
\* input yields the character of the known name it spells, and one '&'
\* only when it spells none.
C6_Unescape ==
  IsUnescape(last) => content[last.self] = C6_Reference(last.old)

C6_Witness ==
  /\ IsUnescape(last)
  /\ last.old = <<"&", "l", "t">>
  /\ content[last.self] = <<"<">>

\* ---------------------------------------------- attribute properties
\* the map a list of pairs denotes: the latest pair of a key wins
RECURSIVE PairsMap(_)
PairsMap(list) ==
  IF list = <<>> THEN EmptyMap
  ELSE LET front == SubSeq(list, 1, Len(list) - 1)
           p == list[Len(list)]
       IN insert(PairsMap(front), p[1], p[2])

\* what the claims say is stored for a supplied value
Stored(raw, v) == IF raw THEN v ELSE escape_ascii(v)

StoredMap(raw, m) == [k \in DOMAIN m |-> Stored(raw, m[k])]

Overwrite(m, new) ==
  [k \in (DOMAIN m) \cup (DOMAIN new) |-> IF k \in DOMAIN new THEN new[k] ELSE m[k]]

\* C7: kws, attrs and configkws replace the whole map; each supplied value
\* is stored escaped exactly once when the node is not in raw mode and
\* verbatim when it is; configkws(m) has the effect of kws(m).
C7_ReplaceAll ==
  [][/\ last'.op \in {"kws", "configkws"}
          => kws'[last'.self] = StoredMap(pre[last'.self], last'.arg)
     /\ last'.op = "attrs"
          => kws'[last'.self] = StoredMap(pre[last'.self], PairsMap(last'.arg))]_vars

\* C8: set_attr and set_attrs insert or overwrite only the named entries;
\* the stored value is escaped when the node is not in raw mode and
\* verbatim when it is.
C8_SetAttr ==
  [][/\ last'.op = "set_attr"
          => kws'[last'.self] =
               Overwrite(kws[last'.self],
                         StoredMap(pre[last'.self], PairsMap(<<last'.arg>>)))
     /\ last'.op = "set_attrs"
          => kws'[last'.self] =
               Overwrite(kws[last'.self],
                         StoredMap(pre[last'.self], PairsMap(last'.arg)))]_vars

\* C10: pre(true) on a node already in raw mode leaves content and every
\* attribute value unchanged, and pre(false) never changes them.
C10_PreIdempotent ==
  [][last'.op = "pre" =>
       ((pre[last'.self] \/ ~last'.arg)
          => (content' = content /\ kws' = kws))]_vars

\* ------------------------------------------------------------- render
\* the keys of a map in the order the HashMap iterates them: ord lists
\* every key once, in an order the caller cannot choose
iter_keys(m, ord) == SelectSeq(ord, LAMBDA k : k \in DOMAIN m)

\* for (k, v) in &inner.kws { push_str(format!(" {}=\"{}\"", k, v)) }
RECURSIVE push_attrs(_, _, _, _)
push_attrs(htmltext, m, ks, i) ==
  IF i > Len(ks) THEN htmltext
  ELSE push_attrs(htmltext \o <<" ">> \o ks[i] \o <<"=", "\"">> \o m[ks[i]] \o <<"\"">>,
                  m, ks, i + 1)

RECURSIVE render(_, _, _)
RECURSIVE push_children(_, _, _, _, _)

\* for item in &inner.children { push_str(split_s); push_str(&subtext) }
push_children(htmltext, v, i, split_s, ord) ==
  IF i > Len(v) THEN htmltext
  ELSE LET subtext == render(v[i], split_s, ord) IN
       push_children(htmltext \o split_s \o subtext, v, i + 1, split_s, ord)

\* render closing a void element like any other
render_closes_void(self, split_s, ord) ==
  IF tag[self] = <<>> THEN content[self]
  ELSE LET opened == push_attrs(<<"<">> \o tag[self], kws[self],
                                iter_keys(kws[self], ord[self]), 1) \o <<">">>
           body == push_children(opened \o content[self], children[self], 1,
                                 split_s, ord)
           closing == <<"<", "/">> \o tag[self] \o <<">">>
       IN IF children[self] # <<>> THEN body \o split_s \o closing
          ELSE body \o closing

\* Element::render(&self, split_s)
render(self, split_s, ord) ==
  IF tag[self] = <<>> THEN content[self]
  ELSE LET opened == push_attrs(<<"<">> \o tag[self], kws[self],
                                iter_keys(kws[self], ord[self]), 1) \o <<">">>
           body == push_children(opened \o content[self], children[self], 1,
                                 split_s, ord)
           closing == <<"<", "/">> \o tag[self] \o <<">">>
       IN IF onetag[self] THEN body \o split_s
          ELSE IF children[self] # <<>> THEN body \o split_s \o closing
          ELSE body \o closing

\* the children render recurses into: none below a node with an empty tag
render_children(n) == IF tag[n] = <<>> THEN {} ELSE Range(children[n])

RECURSIVE render_reach(_, _)
render_reach(S, k) ==
  IF k = 0 THEN S
  ELSE render_reach(S \cup UNION {render_children(n) : n \in S}, k - 1)

\* render(self) never returns: its recursion meets a cycle of children
\* lists and overflows the stack
render_overflows(self) ==
  \E m \in render_reach({self}, NumNodes) :
    m \in render_reach(render_children(m), NumNodes)

Element_render(self, split_s, ord) ==
  /\ ~panicked
  /\ IF render_overflows(self)
     THEN /\ panicked' = TRUE
          /\ last' = Call("render", self, split_s, None)
     ELSE /\ panicked' = FALSE
          /\ last' = Call("render", self, split_s, render(self, split_s, ord))
  /\ UNCHANGED <<TreeVars, DataVars>>

\* ------------------------------------------------ render specification
Tags == {<<>>, <<"p">>}
Seps == {<<>>, <<"\n">>}
Digits == <<"1", "2", "3", "4", "5", "6", "7", "8", "9">>
RenderVals == {<<"\"">>}

\* the orders a HashMap may iterate the keys in
KeyOrders ==
  {o \in SeqsUpTo(Keys, Cardinality(Keys)) :
     Len(o) = Cardinality(Keys) /\ Range(o) = Keys}

\* Element::new(t, "<n") for each node n, with any tags
InitRender ==
  \E t \in [Nodes -> Tags] :
    /\ parent = [n \in Nodes |-> None]
    /\ children = [n \in Nodes |-> <<>>]
    /\ tag = t
    /\ content = [n \in Nodes |-> escape_ascii(<<"<", Digits[n]>>)]
    /\ kws = [n \in Nodes |-> EmptyMap]
    /\ onetag = [n \in Nodes |-> FALSE]
    /\ pre = [n \in Nodes |-> FALSE]
    /\ last = Call("new", None, None, None)
    /\ panicked = FALSE

\* elem is detached and self is not below it: the attachment keeps a tree
KeepsTree(self, elem) ==
  /\ parent[elem] = None
  /\ self \notin ({elem} \cup Reach(elem))

NextRender ==
  \/ \E self \in Nodes, elem \in Nodes :
       KeepsTree(self, elem) /\ Element_add(self, elem)
  \/ \E b \in BOOLEAN : Element_onetag(Elem, b)
  \/ \E k \in Keys, v \in RenderVals : Element_set_attr(Elem, k, v)
  \/ \E self \in Nodes, split_s \in Seps, o \in KeyOrders :
       Element_render(self, split_s, [n \in Nodes |-> o])

SpecRender == InitRender /\ [][NextRender]_vars

\* -------------------------------------------------- render properties
RECURSIVE Flatten(_)
Flatten(parts) ==
  IF parts = <<>> THEN <<>> ELSE Head(parts) \o Flatten(Tail(parts))

Attribute(name, value) == <<" ">> \o name \o <<"=", "\"">> \o value \o <<"\"">>

RECURSIVE Reference(_, _, _)
Reference(n, sep, ord) ==
  IF tag[n] = <<>> THEN content[n]
  ELSE LET ks == iter_keys(kws[n], ord[n])
           kids == children[n]
           open == <<"<">> \o tag[n]
                   \o Flatten([i \in 1..Len(ks) |-> Attribute(ks[i], kws[n][ks[i]])])
                   \o <<">">>
           inner == Flatten([i \in 1..Len(kids) |-> sep \o Reference(kids[i], sep, ord)])
           close == IF onetag[n] THEN sep
                    ELSE IF kids # <<>> THEN sep \o <<"<", "/">> \o tag[n] \o <<">">>
                    ELSE <<"<", "/">> \o tag[n] \o <<">">>
       IN open \o content[n] \o inner \o close

====
